---- MODULE Spec2Model ----
(***************************************************************************)
(* Serenibrain EEG adapter: the live streaming session of                  *)
(* archive/eeg-scanner/live-stream.js (streamEEGData, the control          *)
(* handshake START / ALT START / KEEP-ALIVE / STOP and its teardown), the  *)
(* frame decoder it feeds notifications to, and the scanner/logger of      *)
(* scan.js (discover -> connect -> subscribe, rescan on disconnect).       *)
(***************************************************************************)
EXTENDS Integers, Sequences, FiniteSets, TLC

(***************************************************************************)
(* Bounds of the model (not program constants).                            *)
(***************************************************************************)
\* sample packets counted in one session before notifications are cut off
MaxPackets == 2
\* keep-alive timer ticks followed in one session
MaxTicks == 2
\* stop requests (SIGINT deliveries that reach the handler) in one session
MaxStops == 2
\* concurrent 'discover' handler invocations followed in scan.js
MaxHandlers == 2
\* connectAsync calls counted by the (saturating) history counter of scan.js
MaxConnects == 3
\* readings of Date.now() followed, ClockStep ms apart
MaxClock == 4
ClockStep == 1000
\* sample records in the longest frame of the length family of the decoder
MaxRecords == 3
\* sample packets given to a processor followed over several analysis
\* intervals
MaxBatches == 3
\* readings of Date.now() followed over several analysis intervals
MaxElapsed == 5
\* 'discover' events followed in one call of scanForDevice
MaxDiscovered == 3

(***************************************************************************)
(* State.                                                                  *)
(***************************************************************************)
VARIABLES
    \* ---- live-stream.js: one call of streamEEGData under main ----
    pc,                \* where the async body of streamEEGData is suspended
    duration,          \* TRUE: called with a duration; FALSE: runs until SIGINT
    hasNotify,         \* notifyChar # null
    hasWrite,          \* writeChar # null
    packetCount,       \* processor.packetCount
    ops,               \* commands and transport calls issued, in order
    keepAliveInterval, \* keepAliveInterval is set and not cleared
    sigintHandler,     \* process.on('SIGINT', ...) registered
    durationTimer,     \* setTimeout(cleanup, duration) pending
    cleanups,          \* one entry per running invocation of cleanup()
    linkUp,            \* the transport link to the peripheral is up
    subscribed,        \* notifications are delivered
    proc,              \* the node process
    promise,           \* the promise streamEEGData returned
    \* history of the session (read by the properties only)
    countAtWait1,      \* packetCount when the first 2 s wait ended, -1 before
    countAtSetup,      \* packetCount when the waits were over, -1 before
    discAt,            \* Len(ops) at an unexpected link loss, -1 if none
    stopAsked,         \* a stop request arrived while the link was up
    startRejected,     \* the START write was rejected
    kaFailedAt,        \* place in ops of the latest failed keep-alive, -1 if none
    \* ---- scan.js ----
    bleState,             \* last state reported by noble 'stateChange'
    scanning,             \* the adapter is scanning
    connectedPeripheral,  \* connectedPeripheral # null
    pstate,               \* peripheral.state
    discListeners,        \* peripheral.on('disconnect') has registered a listener
    handlers,             \* the invocations of the 'discover' handler
    scanProc,             \* the node process of scan.js
    connects,             \* connectAsync calls so far (history, saturating)
    \* ---- live-stream.js: the EEGStreamProcessor (with packetCount above) ----
    windowDuration,    \* this.windowDuration
    samplingRate,      \* this.samplingRate
    adcScale,          \* this.adcScale
    channelBuffers,    \* this.channelBuffers: channel -> sequence of entries
    sampleCount,       \* this.sampleCount
    startTime,         \* this.startTime, 0 for null
    lastAnalysisTime,  \* this.lastAnalysisTime: channel -> time
    now,               \* Date.now()
    lastFrame,         \* the frame last given to processPacket (history)
    emitted,           \* analyses printed by the latest processPacket (history)
    \* ---- the decoder applied to one frame ----
    frame,             \* the frame given to decodePacket
    result,            \* what decodePacket returned for it, Pending before the call
    \* ---- the constructor applied to one options object ----
    options,           \* the options given to new EEGStreamProcessor
    constructed,       \* "no" before the call, then how the call ended
    \* ---- the band powers computed from one power spectrum ----
    psd,               \* the power of each frequency bin of the estimate
    bandResult,        \* the BandPowerResult for it, Pending before the call
    \* ---- live-stream.js: one call of scanForDevice ----
    nobleScanning,     \* noble is scanning
    timeoutHandle,     \* the timer of scanForDevice: pending, fired or cleared
    devices,           \* const devices: the names discovered, in order
    found,             \* the promise scanForDevice returned
    resolveCalls,      \* calls of resolve() so far (history)
    \* ---- history of the frames of a session ----
    seen               \* the frames given to the 'data' callback so far

streamVars == <<pc, duration, hasNotify, hasWrite, packetCount, ops,
                keepAliveInterval, sigintHandler, durationTimer, cleanups,
                linkUp, subscribed, proc, promise,
                countAtWait1, countAtSetup, discAt, stopAsked,
                startRejected, kaFailedAt>>
errVars == <<startRejected, kaFailedAt>>
scanVars == <<bleState, scanning, connectedPeripheral, pstate, discListeners,
              handlers, scanProc, connects>>
procVars == <<windowDuration, samplingRate, adcScale, channelBuffers,
              sampleCount, startTime, lastAnalysisTime, now, lastFrame,
              emitted>>
decVars == <<frame, result>>
ctorVars == <<options, constructed>>
bandVars == <<psd, bandResult>>
findVars == <<nobleScanning, timeoutHandle, devices, found, resolveCalls>>
\* the state of the operations followed on their own
sideVars == <<bandVars, findVars, seen>>
vars == <<streamVars, scanVars, procVars, decVars, ctorVars, sideVars>>

Count(s, x) == Cardinality({i \in DOMAIN s : s[i] = x})

(***************************************************************************)
(* Frames and the decoder (EEGStreamProcessor.decodePacket).               *)
(***************************************************************************)
Byte == 0..255

\* NaN, the result of sampleIdx % 0 in JavaScript: a value no channel
\* number 0..255 equals (one Map key, as NaN is for a JavaScript Map)
NaN == -1

\* data.readUInt16LE(off), off 0-based as in the source; data is 1-based here
readUInt16LE(data, off) == data[off + 1] + 256 * data[off + 2]

\* data[offset] | (data[offset+1] << 8) | (data[offset+2] << 16), bytes disjoint
read24(data, off) == data[off + 1] + 256 * data[off + 2] + 65536 * data[off + 3]

\* mutant of the sign extension: the 24-bit value is kept unsigned
signExtend_Unsigned(value) == value

\* the sign extension of a 24-bit value: if (value & 0x800000) value -= 0x1000000
signExtend(value) == IF (value \div 8388608) % 2 = 1 THEN value - 16777216 ELSE value

\* mutant of the channel assignment: the index is shifted by one first
channelOf_Shifted(sampleIdx, numChannels) ==
    IF numChannels = 0 THEN NaN ELSE (sampleIdx + 1) % numChannels

\* sampleIdx % numChannels (NaN when numChannels is 0)
channelOf(sampleIdx, numChannels) ==
    IF numChannels = 0 THEN NaN ELSE sampleIdx % numChannels

\* value / this.adcScale: the quotient, kept as numerator and denominator
voltageOf(value) == [num |-> value, den |-> adcScale]

\* one 7-byte record read at 0-based offset off
decodeSample(data, off, numChannels, n) ==
    [ sampleNumber |-> n,
      sampleIndex  |-> readUInt16LE(data, off + 4),
      channel      |-> channelOf(readUInt16LE(data, off + 4), numChannels),
      rawValue     |-> signExtend(read24(data, off)),
      voltageUv    |-> voltageOf(signExtend(read24(data, off))) ]

\* data.readUInt32LE(8)
readUInt32LE(data, off) ==
    data[off + 1] + 256 * data[off + 2] + 65536 * data[off + 3]
        + 16777216 * data[off + 4]

\* mutant of the loop test: records are read only within the payload size
\* the header declares
moreSamples_WithinPayload(data, off) ==
    /\ off + 7 <= Len(data) - 10
    /\ off + 7 <= 12 + readUInt32LE(data, 8)

\* mutant of the loop test: records are read up to the end of the frame
moreSamples_ToEnd(data, off) == off + 7 <= Len(data)

\* the loop test: offset + 7 <= data.length - 10
moreSamples(data, off) == off + 7 <= Len(data) - 10

\* while (offset + 7 <= data.length - 10) { ...; offset += 7 }
RECURSIVE decodeSamples(_, _, _, _)
decodeSamples(data, off, numChannels, acc) ==
    IF moreSamples(data, off)
    THEN decodeSamples(data, off + 7, numChannels,
                       Append(acc, decodeSample(data, off, numChannels, Len(acc))))
    ELSE acc

\* mutant of the device model: the NULs are kept
deviceModelOf_KeepNul(data) ==
    LET hi == IF Len(data) < 17 THEN Len(data) ELSE 17
    IN  [i \in 1..(hi - 12) |-> data[12 + i] % 128]

\* data.toString('ascii', 12, 17).replace(/\0/g, ''): the bytes, 7-bit, NULs removed
deviceModelOf(data) ==
    LET hi  == IF Len(data) < 17 THEN Len(data) ELSE 17
        raw == [i \in 1..(hi - 12) |-> data[12 + i] % 128]
    IN  SelectSeq(raw, LAMBDA b : b # 0)

\* data.toString('ascii', 0, 4): the first four bytes, 7-bit
headerOf(data) == [i \in 1..4 |-> data[i] % 128]

\* mutant of the length test: a frame of exactly 12 bytes is refused too
tooShort_Inclusive(data) == Len(data) <= 12

\* if (data.length < 12) throw new Error('Packet too short')
tooShort(data) == Len(data) < 12

\* mutant of the type test: every type but the status type carries records
isSampleType_NotStatus(packetType) == packetType # 1

\* if (packetType === 2) { ... }
isSampleType(packetType) == packetType = 2

\* decodePacket: thrown |-> TRUE stands for `throw new Error('Packet too short')`
decodePacket(data) ==
    IF tooShort(data)
    THEN [ thrown |-> TRUE, header |-> <<>>, packetType |-> 0,
           numChannels |-> 0, payloadSize |-> 0,
           deviceModel |-> <<>>, samples |-> <<>> ]
    ELSE [ thrown      |-> FALSE,
           header      |-> headerOf(data),
           packetType  |-> data[6],
           payloadSize |-> readUInt32LE(data, 8),
           numChannels |-> data[8],
           deviceModel |-> IF data[6] = 1 THEN deviceModelOf(data) ELSE <<>>,
           samples     |-> IF isSampleType(data[6])
                           THEN decodeSamples(data, 12, data[8], <<>>)
                           ELSE <<>> ]

\* mutant of the test before this.packetCount++ : a type-2 packet counts
\* whether or not it holds a sample
countsAsSamplePacket_EmptyToo(data) ==
    LET packet == decodePacket(data)
    IN  /\ ~packet.thrown
        /\ packet.packetType = 2

\* processPacket reaches this.packetCount++ : decoded, type 2, at least one sample
countsAsSamplePacket(data) ==
    LET packet == decodePacket(data)
    IN  /\ ~packet.thrown
        /\ packet.packetType # 1
        /\ ~(packet.packetType # 2 \/ Len(packet.samples) = 0)

(***************************************************************************)
(* live-stream.js: EEGStreamProcessor, constructor and processPacket.      *)
(***************************************************************************)
\* options.x || dflt: an absent option and 0 both give the default
orDefault(option, dflt) == IF option = 0 THEN dflt ELSE option

\* the fields new EEGStreamProcessor({windowDuration, samplingRate, adcScale})
\* sets, other than packetCount; the constructor has no throw
constructor(w, r, a) ==
    [ windowDuration   |-> orDefault(w, 6),
      samplingRate     |-> orDefault(r, 250),
      adcScale         |-> orDefault(a, 100),
      channelBuffers   |-> <<>>,
      sampleCount      |-> 0,
      startTime        |-> 0,
      lastAnalysisTime |-> <<>>,
      ended            |-> "ok" ]

\* the processor is as the constructor left it
Constructed(w, r, a) ==
    /\ windowDuration = constructor(w, r, a).windowDuration
    /\ samplingRate = constructor(w, r, a).samplingRate
    /\ adcScale = constructor(w, r, a).adcScale
    /\ channelBuffers = constructor(w, r, a).channelBuffers
    /\ sampleCount = constructor(w, r, a).sampleCount
    /\ startTime = constructor(w, r, a).startTime
    /\ lastAnalysisTime = constructor(w, r, a).lastAnalysisTime

\* mutant of the capacity: the analysis window without the factor 1.5
maxBufferSamples_Window == windowDuration * samplingRate

\* this.maxBufferSamples = Math.floor(windowDuration * samplingRate * 1.5)
maxBufferSamples == (windowDuration * samplingRate * 3) \div 2

\* this.analysisInterval, in ms
analysisInterval == 2000

\* mutant of the time stamp: a clock that runs backwards
currentTime_Backwards == 0 - now

\* const currentTime = Date.now()
currentTime == now

\* mutant of the append: the entry is put in front (unshift), the trim
\* drops the entry at the end
appendSample_Front(buffer, entry) ==
    LET pushed == <<entry>> \o buffer
    IN  IF Len(pushed) > maxBufferSamples
        THEN SubSeq(pushed, 1, Len(pushed) - 1) ELSE pushed

\* buffer.push(entry); if (buffer.length > this.maxBufferSamples) buffer.shift()
appendSample(buffer, entry) ==
    LET pushed == Append(buffer, entry)
    IN  IF Len(pushed) > maxBufferSamples THEN Tail(pushed) ELSE pushed

\* for (const sample of packet.samples) { ... } from sample i on: the
\* channel's buffer and lastAnalysisTime entry are created at its first
\* sample, the entry is appended to that channel's buffer alone
RECURSIVE addSamples(_, _, _, _)
addSamples(samples, i, buffers, last) ==
    IF i > Len(samples)
    THEN [buffers |-> buffers, last |-> last]
    ELSE LET ch     == samples[i].channel
             known  == ch \in DOMAIN buffers
             buffer == IF known THEN buffers[ch] ELSE <<>>
             entry  == [time |-> currentTime, voltage |-> samples[i].voltageUv]
         IN  addSamples(samples, i + 1,
                 [c \in DOMAIN buffers \cup {ch} |->
                     IF c = ch THEN appendSample(buffer, entry) ELSE buffers[c]],
                 IF known THEN last
                 ELSE [c \in DOMAIN last \cup {ch} |->
                          IF c = ch THEN currentTime ELSE last[c]])

\* mutant of the analysis loop: every channel is analysed and restamped at
\* every counted packet
analysed_EveryPacket(last) == [c \in DOMAIN last |-> currentTime]

\* for (const [ch, lastTime] of this.lastAnalysisTime.entries()): a channel
\* whose interval has passed is analysed (console output only) and restamped
analysed(last) ==
    [c \in DOMAIN last |->
        IF currentTime - last[c] >= analysisInterval
        THEN currentTime ELSE last[c]]

\* mutant of the sample-count test: one sample is enough
enoughSamples_Any(n) == n >= 1

\* if (buffer.length < 10) return;  if (dataToAnalyze.length < 10) return
enoughSamples(n) == n >= 10

\* Math.floor(this.windowDuration * this.samplingRate)
windowSamples == windowDuration * samplingRate

\* voltages.slice(-k): the last k for k > 0, all of them for k = 0, all but
\* the first -k for k < 0
sliceFromEnd(voltages, k) ==
    IF k > 0
    THEN SubSeq(voltages, Len(voltages) - k + 1, Len(voltages))
    ELSE SubSeq(voltages, 1 - k, Len(voltages))

\* mutant of the snapshot: the oldest windowSamples voltages
dataToAnalyze_Oldest(voltages) ==
    IF Len(voltages) > windowSamples
    THEN SubSeq(voltages, 1, windowSamples) ELSE voltages

\* voltages.length > windowSamples ? voltages.slice(-windowSamples) : voltages
dataToAnalyze(voltages) ==
    IF Len(voltages) > windowSamples
    THEN sliceFromEnd(voltages, windowSamples) ELSE voltages

\* analyzeChannel(channelId) over the given buffers: the analysis it prints,
\* if any; it writes no field of the processor
analyzeChannel(channelId, buffers) ==
    LET buffer   == buffers[channelId]
        voltages == [i \in DOMAIN buffer |-> buffer[i].voltage]
    IN  IF ~enoughSamples(Len(buffer)) THEN {}
        ELSE IF ~enoughSamples(Len(dataToAnalyze(voltages))) THEN {}
        ELSE {[ channel |-> channelId, held |-> Len(buffer),
                data |-> dataToAnalyze(voltages) ]}

\* mutant of the order of the two loops: the analysis reads the buffers as
\* they were before the batch was appended
analysisInput_Before(before, after) == before

\* the analysis loop comes after the sample loop: it reads the buffers with
\* the whole batch appended and trimmed
analysisInput(before, after) == after

\* the channels of lastAnalysisTime whose interval has passed
due(last) == {c \in DOMAIN last : currentTime - last[c] >= analysisInterval}

\* mutant of the catch: the error leaves processPacket and, uncaught in the
\* 'data' callback, ends the process
Caught_Rethrown ==
    /\ UNCHANGED <<packetCount, startTime, channelBuffers, sampleCount,
                   lastAnalysisTime>>
    /\ emitted' = {}
    /\ proc' = "exit1"

\* } catch (err) { console.error('Error processing packet:', err.message) }
Caught ==
    /\ UNCHANGED <<packetCount, startTime, channelBuffers, sampleCount,
                   lastAnalysisTime, proc>>
    /\ emitted' = {}

\* processPacket(data): what it does to the processor's fields, and to the
\* process when an error leaves it
processPacket(data) ==
    IF decodePacket(data).thrown
    THEN Caught
    ELSE IF countsAsSamplePacket(data)
    THEN LET packet == decodePacket(data)
             added  == addSamples(packet.samples, 1, channelBuffers,
                                  lastAnalysisTime)
         IN  /\ packetCount' = packetCount + 1
             /\ startTime' = IF startTime = 0 THEN currentTime ELSE startTime
             /\ channelBuffers' = added.buffers
             /\ sampleCount' = sampleCount + Len(packet.samples)
             /\ lastAnalysisTime' = analysed(added.last)
             /\ emitted' = UNION {analyzeChannel(c,
                                     analysisInput(channelBuffers, added.buffers)) :
                                  c \in due(added.last)}
             /\ UNCHANGED proc
    ELSE /\ UNCHANGED <<packetCount, startTime, channelBuffers, sampleCount,
                        lastAnalysisTime, proc>>
         /\ emitted' = {}

\* frames a device is seen to send during a session
HeaderBytes(type, numCh) == <<68, 65, 84, 65, 0, type, 0, numCh, 32, 0, 0, 0>>
Trailer == <<0, 0, 0, 0, 0, 0, 0, 0, 0, 0>>
StatusFrame == <<68, 65, 84, 65, 0, 1, 0, 3, 32, 0, 0, 0, 84, 72, 50, 49>>
SampleFrame == HeaderBytes(2, 3) \o <<1, 2, 3, 0, 0, 0, 0>> \o Trailer
EmptyBatchFrame == HeaderBytes(2, 3) \o Trailer
UnknownTypeFrame == HeaderBytes(3, 3) \o Trailer
ShortFrame == <<68, 65, 84>>
SessionFrames ==
    {StatusFrame, SampleFrame, EmptyBatchFrame, UnknownTypeFrame, ShortFrame}



(***************************************************************************)
(* live-stream.js: streamEEGData.                                          *)
(***************************************************************************)
Alive == proc = "running"

\* how an awaited write / subscribe / unsubscribe / discovery can settle:
\* resolved (TRUE) or rejected (FALSE); only rejected once the link is down
Outcomes == IF linkUp THEN {TRUE, FALSE} ELSE {FALSE}

\* } catch (err) { reject(err); }  and main's  catch -> process.exit(1)
Rejected ==
    /\ pc' = "rejected"
    /\ promise' = "rejected"
    /\ proc' = "exit1"

\* mutants of the alt-start test: the comparison inverted; the count not read
NeedAltStart_Inverted == packetCount > 0 /\ hasWrite
NeedAltStart_NoCount == hasWrite

\* mutant of the alt-start test: the write characteristic not tested
NeedAltStart_NoWriteChar == packetCount = 0

\* if (processor.packetCount === 0 && writeChar)
NeedAltStart == packetCount = 0 /\ hasWrite

\* mutant of the keep-alive test: the packet count not read
KeepAliveCondition_NoCount == hasWrite

\* if (writeChar && processor.packetCount > 0)
KeepAliveCondition == hasWrite /\ packetCount > 0

\* the synchronous tail of the body once the waits are over: keep-alive
\* interval, cleanup, duration timer or SIGINT handler
Setup ==
    /\ keepAliveInterval' = KeepAliveCondition
    /\ durationTimer' = duration
    /\ sigintHandler' = ~duration
    /\ countAtSetup' = packetCount
    /\ pc' = "armed"

\* await peripheral.connectAsync()
ConnectSettled(ok) ==
    /\ Alive /\ pc = "connect"
    /\ UNCHANGED <<scanVars, procVars, decVars, ctorVars, sideVars, errVars>>
    /\ IF ok
       THEN /\ linkUp' = TRUE
            /\ pc' = "discover"
            /\ UNCHANGED <<promise, proc>>
       ELSE /\ Rejected
            /\ UNCHANGED linkUp
    /\ UNCHANGED <<duration, hasNotify, hasWrite, packetCount, ops,
                   keepAliveInterval, sigintHandler, durationTimer, cleanups,
                   subscribed, countAtWait1, countAtSetup, discAt, stopAsked>>

\* await discoverAllServicesAndCharacteristicsAsync(); the loop over the
\* characteristics; throw when there is no notify characteristic;
\* notifyChar.on('data'); the call of subscribeAsync
DiscoverSettled(ok, n, w) ==
    /\ Alive /\ pc = "discover"
    /\ UNCHANGED <<scanVars, procVars, decVars, ctorVars, sideVars, errVars>>
    /\ IF ok
       THEN /\ hasNotify' = n
            /\ hasWrite' = w
            /\ IF n
               THEN /\ pc' = "subscribe"
                    /\ UNCHANGED <<promise, proc>>
               ELSE Rejected
       ELSE /\ Rejected
            /\ UNCHANGED <<hasNotify, hasWrite>>
    /\ UNCHANGED <<duration, packetCount, ops, keepAliveInterval,
                   sigintHandler, durationTimer, cleanups, linkUp, subscribed,
                   countAtWait1, countAtSetup, discAt, stopAsked>>

\* await notifyChar.subscribeAsync(); then the START write is issued, or,
\* with no write characteristic, the first 2 s wait starts
SubscribeSettled(ok) ==
    /\ Alive /\ pc = "subscribe"
    /\ UNCHANGED <<scanVars, procVars, decVars, ctorVars, sideVars, errVars>>
    /\ IF ok
       THEN /\ subscribed' = TRUE
            /\ IF hasWrite
               THEN /\ ops' = ops \o <<"SUBSCRIBED", "START">>
                    /\ pc' = "startWrite"
               ELSE /\ ops' = Append(ops, "SUBSCRIBED")
                    /\ pc' = "wait1"
            /\ UNCHANGED <<promise, proc>>
       ELSE /\ Rejected
            /\ UNCHANGED <<subscribed, ops>>
    /\ UNCHANGED <<duration, hasNotify, hasWrite, packetCount,
                   keepAliveInterval, sigintHandler, durationTimer, cleanups,
                   linkUp, countAtWait1, countAtSetup, discAt, stopAsked>>

\* await writeChar.writeAsync(CMD_START_STREAM): resolved or rejected (the
\* rejection is caught and logged), then the first 2 s wait starts
\* mutant of the catch around the START write: a rejection ends the body
AfterStartWrite_Abort(ok) == IF ok THEN "wait1" ELSE "rejected"

\* try { await writeAsync(CMD_START_STREAM) } catch (err) { log }: either
\* way the body goes on to the 2 s wait
AfterStartWrite(ok) == "wait1"

StartWriteSettled(ok) ==
    /\ Alive /\ pc = "startWrite"
    /\ UNCHANGED <<scanVars, procVars, decVars, ctorVars, sideVars, kaFailedAt>>
    /\ pc' = AfterStartWrite(ok)
    /\ startRejected' = ~ok
    /\ UNCHANGED <<duration, hasNotify, hasWrite, packetCount, ops,
                   keepAliveInterval, sigintHandler, durationTimer, cleanups,
                   linkUp, subscribed, proc, promise,
                   countAtWait1, countAtSetup, discAt, stopAsked>>

\* the first 2 s wait ends: the alternative START is issued, or the body
\* runs to its end
Wait1Timeout ==
    /\ Alive /\ pc = "wait1"
    /\ UNCHANGED <<scanVars, procVars, decVars, ctorVars, sideVars, errVars>>
    /\ countAtWait1' = packetCount
    /\ IF NeedAltStart
       THEN /\ ops' = Append(ops, "ALT")
            /\ pc' = "altWrite"
            /\ UNCHANGED <<keepAliveInterval, sigintHandler, durationTimer,
                           countAtSetup>>
       ELSE /\ Setup
            /\ UNCHANGED ops
    /\ UNCHANGED <<duration, hasNotify, hasWrite, packetCount, cleanups,
                   linkUp, subscribed, proc, promise, discAt, stopAsked>>

\* await writeChar.writeAsync(CMD_ALT_START): resolved -> second 2 s wait;
\* rejected -> caught, the body runs to its end
AltWriteSettled(ok) ==
    /\ Alive /\ pc = "altWrite"
    /\ UNCHANGED <<scanVars, procVars, decVars, ctorVars, sideVars, errVars>>
    /\ IF ok
       THEN /\ pc' = "wait2"
            /\ UNCHANGED <<keepAliveInterval, sigintHandler, durationTimer,
                           countAtSetup>>
       ELSE Setup
    /\ UNCHANGED <<duration, hasNotify, hasWrite, packetCount, ops, cleanups,
                   linkUp, subscribed, proc, promise, countAtWait1, discAt,
                   stopAsked>>

\* the second 2 s wait ends
Wait2Timeout ==
    /\ Alive /\ pc = "wait2"
    /\ UNCHANGED <<scanVars, procVars, decVars, ctorVars, sideVars, errVars>>
    /\ Setup
    /\ UNCHANGED <<duration, hasNotify, hasWrite, packetCount, ops, cleanups,
                   linkUp, subscribed, proc, promise, countAtWait1, discAt,
                   stopAsked>>

\* notifyChar.on('data', data => processor.processPacket(data))
Notify(data) ==
    /\ Alive /\ subscribed /\ linkUp
    /\ UNCHANGED <<scanVars, decVars, ctorVars, sideVars, errVars>>
    /\ packetCount < MaxPackets
    /\ processPacket(data)
    /\ UNCHANGED <<windowDuration, samplingRate, adcScale, now, lastFrame>>
    /\ UNCHANGED <<pc, duration, hasNotify, hasWrite, ops, keepAliveInterval,
                   sigintHandler, durationTimer, cleanups, linkUp, subscribed,
                   promise, countAtWait1, countAtSetup, discAt,
                   stopAsked>>

\* mutant of the callback's catch: a failed write clears the interval
KeepAliveCaught_Cancel(ok) == ok

\* catch (err) { /* Ignore errors */ }: the interval stays set whatever the
\* outcome of the write
KeepAliveCaught(ok) == keepAliveInterval

\* the setInterval callback: writeAsync(CMD_KEEP_ALIVE), errors ignored
KeepAliveTick(ok) ==
    /\ Alive /\ keepAliveInterval
    /\ UNCHANGED <<scanVars, procVars, decVars, ctorVars, sideVars, startRejected>>
    /\ Count(ops, "KEEPALIVE") < MaxTicks
    /\ ops' = Append(ops, "KEEPALIVE")
    /\ keepAliveInterval' = KeepAliveCaught(ok)
    /\ kaFailedAt' = IF ok THEN kaFailedAt ELSE Len(ops) + 1
    /\ UNCHANGED <<pc, duration, hasNotify, hasWrite, packetCount,
                   sigintHandler, durationTimer, cleanups,
                   linkUp, subscribed, proc, promise, countAtWait1,
                   countAtSetup, discAt, stopAsked>>

\* mutant of the cleanup: the interval is left as it is
ClearInterval_Forgotten == keepAliveInterval

\* clearInterval(keepAliveInterval): the interval is no longer set
ClearInterval == FALSE

\* cleanup() up to its first await: the interval is cleared, and the STOP
\* write is issued or, with no write characteristic, unsubscribeAsync called
CleanupBegin ==
    /\ keepAliveInterval' = ClearInterval
    /\ IF hasWrite
       THEN /\ ops' = Append(ops, "STOP")
            /\ cleanups' = Append(cleanups, "stopWrite")
       ELSE /\ ops' = Append(ops, "UNSUBSCRIBE")
            /\ cleanups' = Append(cleanups, "unsub")

\* SIGINT: the registered handler runs cleanup(); with no handler registered
\* the default disposition ends the process
Sigint ==
    /\ Alive
    /\ UNCHANGED <<scanVars, procVars, decVars, ctorVars, sideVars, errVars>>
    /\ stopAsked' = (stopAsked \/ linkUp)
    /\ IF sigintHandler
       THEN /\ Len(cleanups) < MaxStops
            /\ CleanupBegin
            /\ UNCHANGED proc
       ELSE /\ proc' = "killed"
            /\ UNCHANGED <<ops, keepAliveInterval, cleanups>>
    /\ UNCHANGED <<pc, duration, hasNotify, hasWrite, packetCount,
                   sigintHandler, durationTimer, linkUp, subscribed, promise,
                   countAtWait1, countAtSetup, discAt>>

\* setTimeout(async () => { await cleanup(); resolve(); }, duration * 1000)
DurationTimeout ==
    /\ Alive /\ durationTimer
    /\ UNCHANGED <<scanVars, procVars, decVars, ctorVars, sideVars, errVars>>
    /\ durationTimer' = FALSE
    /\ stopAsked' = (stopAsked \/ linkUp)
    /\ CleanupBegin
    /\ UNCHANGED <<pc, duration, hasNotify, hasWrite, packetCount,
                   sigintHandler, linkUp, subscribed, proc, promise,
                   countAtWait1, countAtSetup, discAt>>

\* an await of cleanup() rejects: cleanup() rejects, nothing catches it in the
\* timer callback or the SIGINT handler (an unhandled rejection: the process
\* goes on or is ended, depending on the runtime)
CleanupRejects(i) ==
    /\ cleanups' = [cleanups EXCEPT ![i] = "failed"]
    /\ proc' \in {"running", "crashed"}

\* the STOP write settles, resolved or rejected (ignored): unsubscribeAsync
CleanupStopSettled(i) ==
    /\ Alive /\ i \in DOMAIN cleanups /\ cleanups[i] = "stopWrite"
    /\ UNCHANGED <<scanVars, procVars, decVars, ctorVars, sideVars, errVars>>
    /\ cleanups' = [cleanups EXCEPT ![i] = "unsub"]
    /\ ops' = Append(ops, "UNSUBSCRIBE")
    /\ UNCHANGED <<pc, duration, hasNotify, hasWrite, packetCount,
                   keepAliveInterval, sigintHandler, durationTimer, linkUp,
                   subscribed, proc, promise, countAtWait1, countAtSetup,
                   discAt, stopAsked>>

\* await notifyChar.unsubscribeAsync(): resolved -> disconnectAsync is called
CleanupUnsubSettled(i, ok) ==
    /\ Alive /\ i \in DOMAIN cleanups /\ cleanups[i] = "unsub"
    /\ UNCHANGED <<scanVars, procVars, decVars, ctorVars, sideVars, errVars>>
    /\ IF ok
       THEN /\ subscribed' = FALSE
            /\ ops' = Append(ops, "DISCONNECT")
            /\ cleanups' = [cleanups EXCEPT ![i] = "disc"]
            /\ UNCHANGED proc
       ELSE /\ CleanupRejects(i)
            /\ UNCHANGED <<subscribed, ops>>
    /\ UNCHANGED <<pc, duration, hasNotify, hasWrite, packetCount,
                   keepAliveInterval, sigintHandler, durationTimer, linkUp,
                   promise, countAtWait1, countAtSetup, discAt, stopAsked>>

\* await peripheral.disconnectAsync(): resolved -> resolve() with a duration,
\* process.exit(0) in the SIGINT handler
CleanupDiscSettled(i, ok) ==
    /\ Alive /\ i \in DOMAIN cleanups /\ cleanups[i] = "disc"
    /\ UNCHANGED <<scanVars, procVars, decVars, ctorVars, sideVars, errVars>>
    /\ IF ok
       THEN /\ linkUp' = FALSE
            /\ cleanups' = [cleanups EXCEPT ![i] = "done"]
            /\ IF duration
               THEN promise' = "resolved" /\ UNCHANGED proc
               ELSE proc' = "exit0" /\ UNCHANGED promise
       ELSE /\ CleanupRejects(i)
            /\ UNCHANGED <<linkUp, promise>>
    /\ UNCHANGED <<pc, duration, hasNotify, hasWrite, packetCount, ops,
                   keepAliveInterval, sigintHandler, durationTimer,
                   subscribed, countAtWait1, countAtSetup, discAt, stopAsked>>

\* the link to the peripheral is lost; streamEEGData registers no
\* 'disconnect' listener, so nothing of the session reacts
TransportDisconnected ==
    /\ Alive /\ linkUp
    /\ UNCHANGED <<scanVars, procVars, decVars, ctorVars, sideVars, errVars>>
    /\ linkUp' = FALSE
    /\ discAt' = IF discAt = -1 THEN Len(ops) ELSE discAt
    /\ UNCHANGED <<pc, duration, hasNotify, hasWrite, packetCount, ops,
                   keepAliveInterval, sigintHandler, durationTimer, cleanups,
                   subscribed, proc, promise, countAtWait1, countAtSetup,
                   stopAsked>>

StreamInit ==
    /\ pc = "connect"
    /\ duration \in BOOLEAN
    /\ hasNotify = FALSE
    /\ hasWrite = FALSE
    /\ packetCount = 0
    /\ ops = <<>>
    /\ keepAliveInterval = FALSE
    /\ sigintHandler = FALSE
    /\ durationTimer = FALSE
    /\ cleanups = <<>>
    /\ linkUp = FALSE
    /\ subscribed = FALSE
    /\ proc = "running"
    /\ promise = "pending"
    /\ countAtWait1 = -1
    /\ countAtSetup = -1
    /\ discAt = -1
    /\ stopAsked = FALSE
    /\ startRejected = FALSE
    /\ kaFailedAt = -1

ScanInit ==
    /\ bleState = "unknown"
    /\ scanning = FALSE
    /\ connectedPeripheral = FALSE
    /\ pstate = "disconnected"
    /\ discListeners = FALSE
    /\ handlers = [h \in 1..MaxHandlers |-> "idle"]
    /\ scanProc = "running"
    /\ connects = 0

\* no result yet
Pending == [pending |-> TRUE]

\* the processor streamEEGData constructs, at the time the session starts
ProcInit ==
    /\ Constructed(6, 250, 100)
    /\ now = ClockStep
    /\ lastFrame = <<>>
    /\ emitted = {}
    /\ options = [windowDuration |-> 6, samplingRate |-> 250, adcScale |-> 100]
    /\ constructed = "ok"

DecInit ==
    /\ frame = <<>>
    /\ result = Pending

\* no spectrum analysed yet
BandInit ==
    /\ psd = <<>>
    /\ bandResult = Pending

\* scanForDevice not called yet
FindInit ==
    /\ nobleScanning = FALSE
    /\ timeoutHandle = "unset"
    /\ devices = <<>>
    /\ found = [state |-> "none", value |-> <<>>, at |-> 0]
    /\ resolveCalls = 0

\* the operations followed on their own, not started
SideInit == BandInit /\ FindInit /\ seen = {}

Init == StreamInit /\ ScanInit /\ ProcInit /\ DecInit /\ SideInit

Next ==
    \/ \E ok \in BOOLEAN : ConnectSettled(ok)
    \/ \E ok \in Outcomes, n \in BOOLEAN, w \in BOOLEAN : DiscoverSettled(ok, n, w)
    \/ \E ok \in Outcomes : SubscribeSettled(ok)
    \/ \E ok \in Outcomes : StartWriteSettled(ok)
    \/ Wait1Timeout
    \/ \E ok \in Outcomes : AltWriteSettled(ok)
    \/ Wait2Timeout
    \/ \E data \in SessionFrames : Notify(data)
    \/ \E ok \in Outcomes : KeepAliveTick(ok)
    \/ Sigint
    \/ DurationTimeout
    \/ \E i \in 1..MaxStops : CleanupStopSettled(i)
    \/ \E i \in 1..MaxStops : \E ok \in Outcomes : CleanupUnsubSettled(i, ok)
    \/ \E i \in 1..MaxStops : \E ok \in BOOLEAN : CleanupDiscSettled(i, ok)
    \/ TransportDisconnected

Spec == Init /\ [][Next]_vars


(***************************************************************************)
(* scan.js: scanner and notification logger.  Every 'discover' event of    *)
(* the target starts one invocation h of the handler; all invocations work *)
(* on the one peripheral object of the target address.                     *)
(***************************************************************************)
ScanAlive == scanProc = "running"

\* startScan(): noble.startScanningAsync([], true) starts the scan when the
\* adapter is powered on and rejects otherwise (caught and logged)
startScan == scanning \/ bleState = "poweredOn"

\* connects so far, counted up to MaxConnects
Counted(n) == IF n < MaxConnects THEN n + 1 ELSE n

\* the handler invocations inside the connect / discover / subscribe sequence
InSequence(h) == handlers[h] \in {"connecting", "discovering", "subscribing"}

\* noble.on('stateChange'): poweredOn -> startScan(), else stopScanningAsync()
StateChange(state) ==
    /\ ScanAlive /\ state # bleState
    /\ bleState' = state
    /\ scanning' = IF state = "poweredOn" THEN TRUE ELSE FALSE
    /\ UNCHANGED <<connectedPeripheral, pstate, discListeners, handlers,
                   scanProc, connects>>
    /\ UNCHANGED <<streamVars, procVars, decVars, ctorVars, sideVars>>

\* noble.on('discover'): the device is logged; for the target (address or
\* name match) stopScanningAsync() is called and awaited
Discover(h, isTarget) ==
    /\ ScanAlive /\ scanning
    /\ handlers[h] = "idle"
    /\ handlers' = IF isTarget THEN [handlers EXCEPT ![h] = "stopScan"]
                   ELSE handlers
    /\ UNCHANGED <<bleState, scanning, connectedPeripheral, pstate,
                   discListeners, scanProc, connects>>
    /\ UNCHANGED <<streamVars, procVars, decVars, ctorVars, sideVars>>

\* stopScanningAsync() settles (a rejection is swallowed); the 'disconnect'
\* listener is registered and connectAsync() is called
ScanStopSettled(h) ==
    /\ ScanAlive /\ handlers[h] = "stopScan"
    /\ scanning' = FALSE
    /\ discListeners' = TRUE
    /\ pstate' = IF pstate = "disconnected" THEN "connecting" ELSE pstate
    /\ connects' = Counted(connects)
    /\ handlers' = [handlers EXCEPT ![h] = "connecting"]
    /\ UNCHANGED <<bleState, connectedPeripheral, scanProc>>
    /\ UNCHANGED <<streamVars, procVars, decVars, ctorVars, sideVars>>

\* await peripheral.connectAsync(): resolved -> connectedPeripheral is set and
\* the discovery is called; rejected -> the catch calls disconnectAsync()
ScanConnectSettled(h, ok) ==
    /\ ScanAlive /\ handlers[h] = "connecting"
    /\ IF ok
       THEN /\ pstate' = "connected"
            /\ connectedPeripheral' = TRUE
            /\ handlers' = [handlers EXCEPT ![h] = "discovering"]
       ELSE /\ handlers' = [handlers EXCEPT ![h] = "errDisconnect"]
            /\ UNCHANGED <<pstate, connectedPeripheral>>
    /\ UNCHANGED <<bleState, scanning, discListeners, scanProc, connects>>
    /\ UNCHANGED <<streamVars, procVars, decVars, ctorVars, sideVars>>

\* await discoverAllServicesAndCharacteristicsAsync(): resolved -> the loop
\* subscribing the notify/indicate characteristics; rejected -> the catch
ScanDiscoverSettled(h, ok) ==
    /\ ScanAlive /\ handlers[h] = "discovering"
    /\ handlers' = [handlers EXCEPT
                      ![h] = IF ok THEN "subscribing" ELSE "errDisconnect"]
    /\ UNCHANGED <<bleState, scanning, connectedPeripheral, pstate,
                   discListeners, scanProc, connects>>
    /\ UNCHANGED <<streamVars, procVars, decVars, ctorVars, sideVars>>

\* the subscribe loop ends (a failed subscribeAsync is caught inside it):
\* 'Ready', the invocation returns
ScanSubscribed(h) ==
    /\ ScanAlive /\ handlers[h] = "subscribing"
    /\ handlers' = [handlers EXCEPT ![h] = "idle"]
    /\ UNCHANGED <<bleState, scanning, connectedPeripheral, pstate,
                   discListeners, scanProc, connects>>
    /\ UNCHANGED <<streamVars, procVars, decVars, ctorVars, sideVars>>

\* mutant of the 'disconnect' listener: the scan is not restarted
OnDisconnect_NoRescan ==
    /\ connectedPeripheral' = FALSE
    /\ UNCHANGED scanning

\* mutant of the 'disconnect' listener: connectedPeripheral is not cleared
OnDisconnect_KeepPeripheral ==
    /\ UNCHANGED connectedPeripheral
    /\ scanning' = startScan

\* peripheral.on('disconnect'): connectedPeripheral = null; startScan()
OnDisconnect ==
    /\ connectedPeripheral' = FALSE
    /\ scanning' = startScan

\* the catch of the connect/discover error: the awaited disconnectAsync()
\* settles (a rejection is swallowed; a link that was up goes down and the
\* 'disconnect' listener runs), connectedPeripheral = null, startScan()
ScanErrorSettled(h) ==
    /\ ScanAlive /\ handlers[h] = "errDisconnect"
    /\ pstate' = "disconnected"
    /\ connectedPeripheral' = FALSE
    /\ scanning' = startScan
    /\ handlers' = [handlers EXCEPT ![h] = "idle"]
    /\ UNCHANGED <<bleState, discListeners, scanProc, connects>>
    /\ UNCHANGED <<streamVars, procVars, decVars, ctorVars, sideVars>>

\* the link of the connected peripheral is lost: the 'disconnect' event
PeripheralDisconnect ==
    /\ ScanAlive /\ pstate = "connected" /\ discListeners
    /\ pstate' = "disconnected"
    /\ OnDisconnect
    /\ UNCHANGED <<bleState, discListeners, handlers, scanProc, connects>>
    /\ UNCHANGED <<streamVars, procVars, decVars, ctorVars, sideVars>>

\* process.on('SIGINT'): disconnectAsync() of a connected peripheral,
\* stopScanningAsync(), process.exit(0)
ScanSigint ==
    /\ ScanAlive
    /\ pstate' = IF connectedPeripheral /\ pstate = "connected"
                 THEN "disconnected" ELSE pstate
    /\ connectedPeripheral' = IF connectedPeripheral /\ pstate = "connected"
                              THEN FALSE ELSE connectedPeripheral
    /\ scanning' = FALSE
    /\ scanProc' = "exit0"
    /\ UNCHANGED <<bleState, discListeners, handlers, connects>>
    /\ UNCHANGED <<streamVars, procVars, decVars, ctorVars, sideVars>>

\* scan.js before any event: the stream session of live-stream.js not started
ScanSpecInit ==
    /\ StreamInit
    /\ duration = FALSE
    /\ ScanInit
    /\ ProcInit
    /\ DecInit
    /\ SideInit

ScanNext ==
    \/ \E state \in {"poweredOn", "poweredOff"} : StateChange(state)
    \/ \E h \in 1..MaxHandlers : \E isTarget \in BOOLEAN : Discover(h, isTarget)
    \/ \E h \in 1..MaxHandlers : ScanStopSettled(h)
    \/ \E h \in 1..MaxHandlers : \E ok \in BOOLEAN : ScanConnectSettled(h, ok)
    \/ \E h \in 1..MaxHandlers : \E ok \in BOOLEAN : ScanDiscoverSettled(h, ok)
    \/ \E h \in 1..MaxHandlers : ScanSubscribed(h)
    \/ \E h \in 1..MaxHandlers : ScanErrorSettled(h)
    \/ PeripheralDisconnect
    \/ ScanSigint

ScanSpec == ScanSpecInit /\ [][ScanNext]_vars

\* an awaited promise of a handler invocation that is settled lets that
\* invocation go on: the event loop runs the continuation of every one
ScanContinue(h) ==
    \/ ScanStopSettled(h)
    \/ \E ok \in BOOLEAN : ScanConnectSettled(h, ok)
    \/ \E ok \in BOOLEAN : ScanDiscoverSettled(h, ok)
    \/ ScanSubscribed(h)
    \/ ScanErrorSettled(h)

ScanFairSpec == ScanSpec /\ \A h \in 1..MaxHandlers : WF_vars(ScanContinue(h))


(***************************************************************************)
(* decodePacket applied to one frame after another.                        *)
(***************************************************************************)
\* a type-2 frame of L >= 12 bytes, 3 channels declared, every byte after
\* the header different from the others
LengthFrame(L) == HeaderBytes(2, 3) \o [i \in 1..(L - 12) |-> (i * 37) % 256]

\* frames of every length from the bare header up to MaxRecords records and
\* 6 bytes more, and the typical 92-byte frame
LengthFrames ==
    {LengthFrame(L) : L \in 12..(28 + 7 * MaxRecords)} \cup {LengthFrame(92)}

\* what is left of a frame cut before its 12th byte
ShortFrames == {SubSeq(LengthFrame(29), 1, n) : n \in 0..11}

\* one-record frames over the edge values of each of the three value bytes
EdgeBytes == {0, 1, 127, 128, 255}
SignFrames ==
    {HeaderBytes(2, 1) \o <<a, b, c, 0, 0, 0, 0>> \o Trailer :
        a \in EdgeBytes, b \in EdgeBytes, c \in EdgeBytes}

\* one-record frames over the four bytes after the value and over the
\* declared channel count
IndexBytes == {0, 1, 255}
ChannelCounts == {0, 1, 3, 4}
IndexFrames ==
    {HeaderBytes(2, n) \o <<1, 0, 0, b3, b4, b5, b6>> \o Trailer :
        b3 \in IndexBytes, b4 \in IndexBytes, b5 \in IndexBytes,
        b6 \in IndexBytes, n \in ChannelCounts}

\* "DATA", "data", NULs, "DATB", and "DATA" with the high bit of D set
Tags == {<<68, 65, 84, 65>>, <<100, 97, 116, 97>>, <<0, 0, 0, 0>>,
         <<68, 65, 84, 66>>, <<196, 65, 84, 65>>}
DataTag == <<68, 65, 84, 65>>

\* 29-byte frames of each tag and type: a status frame naming "TH21A", a
\* batch of one record, and two types the decoder does not know
TagFrames ==
    {tag \o <<0, type, 0, 3, 32, 0, 0, 0>> \o <<84, 72, 50, 49, 65, 0, 0>>
         \o Trailer : tag \in Tags, type \in {0, 1, 2, 3}}

\* status frames: the 16-byte frame of the capture, the same followed by a
\* NUL, a model with NULs inside, and a bare header
StatusFrames ==
    { StatusFrame, StatusFrame \o <<0>>,
      HeaderBytes(1, 3) \o <<84, 0, 72, 0, 0, 9, 9>>,
      HeaderBytes(1, 3) }

\* values of the payload-size field, bytes 8..11, the largest short of
\* what the checker's integers hold
SizeFields == {<<0, 0, 0, 0>>, <<1, 0, 0, 0>>, <<32, 0, 0, 0>>,
               <<70, 0, 0, 0>>, <<255, 255, 255, 100>>}

\* the frame with its payload-size field replaced
WithSize(data, size) ==
    [i \in 1..Len(data) |-> IF i \in 9..12 THEN size[i - 8] ELSE data[i]]

\* frames of one and of ten records under each value of the size field
SizeFrames ==
    {WithSize(data, size) :
        data \in {LengthFrame(29), LengthFrame(92), StatusFrame},
        size \in SizeFields}

DecodeFrames ==
    LengthFrames \cup ShortFrames \cup SignFrames \cup IndexFrames
        \cup TagFrames \cup StatusFrames \cup SizeFrames

Decoded == result # Pending

\* const packet = this.decodePacket(data)
Decode ==
    /\ ~Decoded
    /\ result' = decodePacket(frame)
    /\ UNCHANGED <<frame, streamVars, scanVars, procVars, ctorVars, sideVars>>

\* the next frame arrives
NextFrame(data) ==
    /\ Decoded
    /\ frame' = data
    /\ result' = Pending
    /\ UNCHANGED <<streamVars, scanVars, procVars, ctorVars, sideVars>>

DecodeSpecInit ==
    /\ StreamInit
    /\ duration = FALSE
    /\ ScanInit
    /\ ProcInit
    /\ SideInit
    /\ frame \in DecodeFrames
    /\ result = Pending

DecodeNext ==
    \/ Decode
    \/ \E data \in DecodeFrames : NextFrame(data)

DecodeSpec == DecodeSpecInit /\ [][DecodeNext]_vars


(***************************************************************************)
(* processPacket called on a processor of its own.                         *)
(***************************************************************************)
\* options the processor is constructed with
WindowOptions == {1, 2}
RateOptions == {1, 2}
ScaleOptions == {0, 10}

\* a type-2 frame of numCh channels made of the given 7-byte records
BatchFrame(numCh, records) == HeaderBytes(2, numCh) \o records \o Trailer

\* a record of value byte v and sample index idx < 256
Record(v, idx) == <<v, 0, 0, 0, idx, 0, 0>>

\* n records of values first, first + 1, ... and index 0
Records(first, n) ==
    [i \in 1..(7 * n) |-> IF (i - 1) % 7 = 0 THEN first + (i - 1) \div 7 ELSE 0]

\* a frame like a batch of one record, of a type the decoder does not know
OtherTypeFrame(type) == HeaderBytes(type, 2) \o Record(10, 0) \o Trailer

ProcFrames ==
    { OtherTypeFrame(0), OtherTypeFrame(3),
      BatchFrame(2, Record(1, 0)),
      BatchFrame(2, Record(2, 1)),
      BatchFrame(2, Record(3, 0) \o Record(4, 1) \o Record(5, 2)),
      BatchFrame(1, Record(6, 0) \o Record(7, 1) \o Record(255, 2)),
      BatchFrame(0, Record(8, 0)),
      <<120, 120, 120, 120>> \o SubSeq(BatchFrame(2, Record(9, 1)), 5, 29),
      StatusFrame, EmptyBatchFrame, UnknownTypeFrame, ShortFrame }

\* the state of the session other than processor.packetCount and the process
sessVars == <<pc, duration, hasNotify, hasWrite, ops, keepAliveInterval,
              sigintHandler, durationTimer, cleanups, linkUp, subscribed,
              promise, countAtWait1, countAtSetup, discAt, stopAsked,
              errVars>>

\* processor.processPacket(data)
ProcessPacket(data) ==
    /\ packetCount < MaxPackets
    /\ processPacket(data)
    /\ lastFrame' = data
    /\ UNCHANGED <<windowDuration, samplingRate, adcScale, now>>
    /\ UNCHANGED <<sessVars, scanVars, decVars, ctorVars, sideVars>>

\* Date.now() has moved on
Tick ==
    /\ now < MaxClock * ClockStep
    /\ now' = now + ClockStep
    /\ UNCHANGED <<windowDuration, samplingRate, adcScale, channelBuffers,
                   sampleCount, startTime, lastAnalysisTime, lastFrame,
                   emitted, streamVars, scanVars, decVars, ctorVars, sideVars>>

ProcSpecInit ==
    /\ StreamInit
    /\ duration = FALSE
    /\ ScanInit
    /\ DecInit
    /\ SideInit
    /\ \E w \in WindowOptions, r \in RateOptions, a \in ScaleOptions :
          /\ Constructed(w, r, a)
          /\ options = [windowDuration |-> w, samplingRate |-> r, adcScale |-> a]
    /\ constructed = "ok"
    /\ now = ClockStep
    /\ lastFrame = <<>>
    /\ emitted = {}

ProcNext ==
    \/ \E data \in ProcFrames : ProcessPacket(data)
    \/ Tick

ProcSpec == ProcSpecInit /\ [][ProcNext]_vars


(***************************************************************************)
(* processPacket on processors whose buffers can hold an analysis window.  *)
(***************************************************************************)
\* windowDuration and samplingRate: windows of 10, 8 and 16 samples
AnalysisOptions == {<<2, 5>>, <<1, 8>>, <<2, 8>>}

\* batches of ten samples for the one channel declared, a single sample for
\* it, a single sample for channel 1 of two, and a frame cut short
AnalysisFrames ==
    { BatchFrame(1, Records(11, 10)),
      BatchFrame(1, Records(21, 10)),
      BatchFrame(1, Record(1, 0)),
      BatchFrame(2, Record(2, 1)),
      ShortFrame }

AnalysisSpecInit ==
    /\ StreamInit
    /\ duration = FALSE
    /\ ScanInit
    /\ DecInit
    /\ SideInit
    /\ \E o \in AnalysisOptions :
          /\ Constructed(o[1], o[2], 0)
          /\ options = [windowDuration |-> o[1], samplingRate |-> o[2],
                        adcScale |-> 0]
    /\ constructed = "ok"
    /\ now = ClockStep
    /\ lastFrame = <<>>
    /\ emitted = {}

AnalysisNext ==
    \/ \E data \in AnalysisFrames : ProcessPacket(data)
    \/ Tick

AnalysisSpec == AnalysisSpecInit /\ [][AnalysisNext]_vars


(***************************************************************************)
(* processPacket on one processor over several analysis intervals.         *)
(***************************************************************************)
\* a batch of ten samples for the one channel declared, and single samples
\* for channel 1 and for channel 0 of two
IntervalFrames ==
    { BatchFrame(1, Records(11, 10)),
      BatchFrame(2, Record(2, 1)),
      BatchFrame(2, Record(3, 0)) }

\* processor.processPacket(data), up to MaxBatches counted packets
ProcessBatch(data) ==
    /\ packetCount < MaxBatches
    /\ processPacket(data)
    /\ lastFrame' = data
    /\ UNCHANGED <<windowDuration, samplingRate, adcScale, now>>
    /\ UNCHANGED <<sessVars, scanVars, decVars, ctorVars, sideVars>>

\* Date.now() has moved on, up to MaxElapsed readings
Elapse ==
    /\ now < MaxElapsed * ClockStep
    /\ now' = now + ClockStep
    /\ UNCHANGED <<windowDuration, samplingRate, adcScale, channelBuffers,
                   sampleCount, startTime, lastAnalysisTime, lastFrame,
                   emitted, streamVars, scanVars, decVars, ctorVars, sideVars>>

\* a processor with a window of 10 samples
IntervalSpecInit ==
    /\ StreamInit
    /\ duration = FALSE
    /\ ScanInit
    /\ DecInit
    /\ SideInit
    /\ Constructed(2, 5, 0)
    /\ options = [windowDuration |-> 2, samplingRate |-> 5, adcScale |-> 0]
    /\ constructed = "ok"
    /\ now = ClockStep
    /\ lastFrame = <<>>
    /\ emitted = {}

IntervalNext ==
    \/ \E data \in IntervalFrames : ProcessBatch(data)
    \/ Elapse

IntervalSpec == IntervalSpecInit /\ [][IntervalNext]_vars


(***************************************************************************)
(* The constructor applied to one options object after another.            *)
(***************************************************************************)
\* options objects: 0 stands for an option left out as well
CtorOptions ==
    [ windowDuration : {-1, 0, 1, 6},
      samplingRate   : {-250, -1, 0, 1, 250},
      adcScale       : {0, 1, 100} ]

\* no processor yet
Unconstructed ==
    /\ windowDuration = 0
    /\ samplingRate = 0
    /\ adcScale = 0
    /\ channelBuffers = <<>>
    /\ sampleCount = 0
    /\ startTime = 0
    /\ lastAnalysisTime = <<>>

\* new EEGStreamProcessor(options)
Construct ==
    /\ constructed = "no"
    /\ LET p == constructor(options.windowDuration, options.samplingRate,
                            options.adcScale)
       IN  /\ windowDuration' = p.windowDuration
           /\ samplingRate' = p.samplingRate
           /\ adcScale' = p.adcScale
           /\ channelBuffers' = p.channelBuffers
           /\ sampleCount' = p.sampleCount
           /\ startTime' = p.startTime
           /\ lastAnalysisTime' = p.lastAnalysisTime
           /\ constructed' = p.ended
    /\ UNCHANGED <<options, now, lastFrame, emitted, streamVars, scanVars,
                   decVars, sideVars>>

\* the next options object
NewOptions(o) ==
    /\ constructed # "no"
    /\ options' = o
    /\ constructed' = "no"
    /\ windowDuration' = 0
    /\ samplingRate' = 0
    /\ adcScale' = 0
    /\ channelBuffers' = <<>>
    /\ sampleCount' = 0
    /\ startTime' = 0
    /\ lastAnalysisTime' = <<>>
    /\ UNCHANGED <<now, lastFrame, emitted, streamVars, scanVars, decVars,
                   sideVars>>

ConstructSpecInit ==
    /\ StreamInit
    /\ duration = FALSE
    /\ ScanInit
    /\ DecInit
    /\ SideInit
    /\ Unconstructed
    /\ options \in CtorOptions
    /\ constructed = "no"
    /\ now = ClockStep
    /\ lastFrame = <<>>
    /\ emitted = {}

ConstructNext ==
    \/ Construct
    \/ \E o \in CtorOptions : NewOptions(o)

ConstructSpec == ConstructSpecInit /\ [][ConstructNext]_vars


(***************************************************************************)
(* The band powers of one power spectrum (calculate_band_powers of         *)
(* process.py, which the stream analysis hands its windows to).            *)
(***************************************************************************)
\* the frequency bands, lower and upper limit in tenths of a Hz
Bands == [ delta |-> <<5, 40>>, theta |-> <<40, 80>>, alpha |-> <<80, 130>>,
           beta |-> <<130, 300>>, gamma |-> <<300, 500>> ]
BandNames == DOMAIN Bands

\* the frequency of each bin of a spectrum, in tenths of a Hz: 0 Hz, a bin
\* inside every band, the limit of delta and theta, and a bin above gamma
BinFreqs == <<0, 20, 40, 100, 200, 400, 600>>

\* the power a bin can hold
PowerLevels == {0, 1, 3}

\* the sum of the values of f at the elements of a finite set
RECURSIVE SumOf(_, _)
SumOf(f, S) ==
    IF S = {} THEN 0
    ELSE LET x == CHOOSE y \in S : TRUE
         IN  f[x] + SumOf(f, S \ {x})

\* the bins of a band: those from its lower limit up to, not including, its
\* upper limit
binsOf(band) ==
    {k \in DOMAIN BinFreqs :
        BinFreqs[k] >= Bands[band][1] /\ BinFreqs[k] < Bands[band][2]}

\* absolute power of a band: the spectrum summed over the band's bins
absolutePower(spectrum, band) ==
    SumOf(spectrum, binsOf(band))

\* mutant of the total: the power of the whole spectrum
totalPower_WholeSpectrum(spectrum) ==
    SumOf(spectrum, DOMAIN BinFreqs)

\* total power across the five bands
totalPower(spectrum) ==
    SumOf([band \in BandNames |-> absolutePower(spectrum, band)], BandNames)

\* relative power of a band in percent: band power / total power, the
\* quotient kept as numerator and denominator (0/0 when no band has power)
relativePower(spectrum, band) ==
    [num |-> 100 * absolutePower(spectrum, band), den |-> totalPower(spectrum)]

\* the BandPowerResult of a spectrum
analyze(spectrum) ==
    [ absolutePower |-> [b \in BandNames |-> absolutePower(spectrum, b)],
      relativePower |-> [b \in BandNames |-> relativePower(spectrum, b)] ]

\* a spectrum is analysed
Analyze ==
    /\ bandResult = Pending
    /\ bandResult' = analyze(psd)
    /\ UNCHANGED <<psd, findVars, seen, streamVars, scanVars, procVars,
                   decVars, ctorVars>>

\* the next spectrum: the one before with the power of one bin changed
NextSpectrum(k, power) ==
    /\ bandResult # Pending
    /\ psd' = [psd EXCEPT ![k] = power]
    /\ bandResult' = Pending
    /\ UNCHANGED <<findVars, seen, streamVars, scanVars, procVars, decVars,
                   ctorVars>>

BandSpecInit ==
    /\ StreamInit
    /\ duration = FALSE
    /\ ScanInit
    /\ ProcInit
    /\ DecInit
    /\ FindInit
    /\ seen = {}
    /\ psd \in [DOMAIN BinFreqs -> PowerLevels]
    /\ bandResult = Pending

BandNext ==
    \/ Analyze
    \/ \E k \in DOMAIN BinFreqs, power \in PowerLevels : NextSpectrum(k, power)

BandSpec == BandSpecInit /\ [][BandNext]_vars


(***************************************************************************)
(* The handshake of streamEEGData up to the keep-alive, with the frames    *)
(* the 'data' callback was given on record.                                *)
(***************************************************************************)
\* notifyChar.on('data', data => processor.processPacket(data)), the frame
\* recorded
NotifySeen(data) ==
    /\ Alive /\ subscribed /\ linkUp
    /\ packetCount < MaxPackets
    /\ processPacket(data)
    /\ seen' = seen \cup {data}
    /\ lastFrame' = data
    /\ UNCHANGED <<windowDuration, samplingRate, adcScale, now>>
    /\ UNCHANGED <<pc, duration, hasNotify, hasWrite, ops, keepAliveInterval,
                   sigintHandler, durationTimer, cleanups, linkUp, subscribed,
                   promise, countAtWait1, countAtSetup, discAt,
                   stopAsked>>
    /\ UNCHANGED <<scanVars, decVars, ctorVars, bandVars, findVars, errVars>>

HandshakeSpecInit ==
    /\ StreamInit
    /\ ScanInit
    /\ ProcInit
    /\ DecInit
    /\ SideInit

HandshakeNext ==
    \/ \E ok \in BOOLEAN : ConnectSettled(ok)
    \/ \E ok \in Outcomes, n \in BOOLEAN, w \in BOOLEAN : DiscoverSettled(ok, n, w)
    \/ \E ok \in Outcomes : SubscribeSettled(ok)
    \/ \E ok \in Outcomes : StartWriteSettled(ok)
    \/ Wait1Timeout
    \/ \E ok \in Outcomes : AltWriteSettled(ok)
    \/ Wait2Timeout
    \/ \E data \in SessionFrames : NotifySeen(data)
    \/ \E ok \in Outcomes : KeepAliveTick(ok)

HandshakeSpec == HandshakeSpecInit /\ [][HandshakeNext]_vars


(***************************************************************************)
(* live-stream.js: scanForDevice.  A peripheral is its localName, a        *)
(* sequence of characters, empty when it advertises none.                  *)
(***************************************************************************)
\* String.prototype.toLowerCase on the letters the names are made of
toLowerCase(s) ==
    LET upper == <<"A", "E", "G", "H", "M", "P", "S", "T">>
        lower == <<"a", "e", "g", "h", "m", "p", "s", "t">>
        low(c) == IF \E i \in DOMAIN upper : upper[i] = c
                  THEN lower[CHOOSE i \in DOMAIN upper : upper[i] = c]
                  ELSE c
    IN  [i \in DOMAIN s |-> low(s[i])]

\* String.prototype.includes
includes(s, pattern) ==
    \E i \in 0..(Len(s) - Len(pattern)) :
        SubSeq(s, i + 1, i + Len(pattern)) = pattern

\* 'serenibrain', 'th21a', 'eeg'
Patterns ==
    { <<"s", "e", "r", "e", "n", "i", "b", "r", "a", "i", "n">>,
      <<"t", "h", "2", "1", "a">>,
      <<"e", "e", "g">> }

\* mutant of the name test: the name is compared as it is advertised
looksLikeDevice_CaseSensitive(localName) ==
    \E pattern \in Patterns : includes(localName, pattern)

\* name.toLowerCase().includes('serenibrain') || ...includes('th21a') ||
\* ...includes('eeg'), name being localName || 'Unknown' in the listener and
\* (localName || '').toLowerCase() in the timer: no pattern is in either
looksLikeDevice(localName) ==
    \E pattern \in Patterns : includes(toLowerCase(localName), pattern)

\* the localNames advertised: none, "Serenibrain", "TH21A", "My EEG", "TH21"
\* and "Phone"
DeviceNames ==
    { <<>>,
      <<"S", "e", "r", "e", "n", "i", "b", "r", "a", "i", "n">>,
      <<"T", "H", "2", "1", "A">>,
      <<"M", "y", " ", "E", "E", "G">>,
      <<"T", "H", "2", "1">>,
      <<"P", "h", "o", "n", "e">> }

\* resolve(value): settles the promise if it is pending and is without
\* effect otherwise; value is <<peripheral>>, or <<>> for undefined
resolve(value, at) ==
    IF found.state = "pending"
    THEN [state |-> "resolved", value |-> value, at |-> at]
    ELSE found

\* scanForDevice(timeout): the timer is set, the 'discover' listener
\* registered and noble.startScanning([], false) called
ScanForDevice ==
    /\ found.state = "none"
    /\ devices' = <<>>
    /\ timeoutHandle' = "pending"
    /\ nobleScanning' = TRUE
    /\ found' = [state |-> "pending", value |-> <<>>, at |-> 0]
    /\ UNCHANGED <<resolveCalls, bandVars, seen, streamVars, scanVars,
                   procVars, decVars, ctorVars>>

\* noble.on('discover'): the peripheral is kept; for a matching name
\* clearTimeout, noble.stopScanning() and resolve(peripheral)
FindDiscover(localName) ==
    /\ found.state # "none"
    /\ Len(devices) < MaxDiscovered
    /\ devices' = Append(devices, localName)
    /\ IF looksLikeDevice(localName)
       THEN /\ timeoutHandle' = IF timeoutHandle = "pending" THEN "cleared"
                                ELSE timeoutHandle
            /\ nobleScanning' = FALSE
            /\ found' = resolve(<<localName>>, Len(devices) + 1)
            /\ resolveCalls' = resolveCalls + 1
       ELSE UNCHANGED <<timeoutHandle, nobleScanning, found, resolveCalls>>
    /\ UNCHANGED <<bandVars, seen, streamVars, scanVars, procVars, decVars,
                   ctorVars>>

\* the timer: noble.stopScanning(), resolve(devices.find(matching name))
FindTimeout ==
    /\ timeoutHandle = "pending"
    /\ timeoutHandle' = "fired"
    /\ nobleScanning' = FALSE
    /\ LET matching == {i \in DOMAIN devices : looksLikeDevice(devices[i])}
           first    == CHOOSE i \in matching : \A j \in matching : i <= j
       IN  found' = resolve(IF matching = {} THEN <<>> ELSE <<devices[first]>>,
                            Len(devices))
    /\ resolveCalls' = resolveCalls + 1
    /\ UNCHANGED <<devices, bandVars, seen, streamVars, scanVars, procVars,
                   decVars, ctorVars>>

FindSpecInit ==
    /\ StreamInit
    /\ duration = FALSE
    /\ ScanInit
    /\ ProcInit
    /\ DecInit
    /\ SideInit

FindNext ==
    \/ ScanForDevice
    \/ \E localName \in DeviceNames : FindDiscover(localName)
    \/ FindTimeout

\* a timer that is set and not cleared fires
FindSpec == FindSpecInit /\ [][FindNext]_vars /\ WF_vars(FindTimeout)


(***************************************************************************)
(* Properties of the streaming session (live-stream.js), under Spec.       *)
(***************************************************************************)
Commands == {"START", "ALT", "KEEPALIVE"}

\* the session is past its waits: keep-alive decided, stop handler in place
Streaming == pc = "armed"

\* a stop has been requested through the handler or the duration timer
StopRequested == cleanups # <<>>

\* C1: with a write characteristic, when the 2 s wait after START ends with
\* packetCount = 0 the alternative START is written exactly once, after START
\* and before any keep-alive.
AltStartOnTimeout ==
    /\ Count(ops, "ALT") <= 1
    /\ (countAtWait1 = 0 /\ hasWrite) =>
          \E j \in DOMAIN ops :
             /\ ops[j] = "ALT"
             /\ \E i \in 1..(j - 1) : ops[i] = "START"
             /\ \A i \in 1..(j - 1) : ops[i] # "KEEPALIVE"

AltStartWritten ==
    /\ countAtWait1 = 0 /\ hasWrite
    /\ pc = "altWrite"
    /\ ops = <<"SUBSCRIBED", "START", "ALT">>

\* C2: when a sample packet has been counted before the 2 s wait after START
\* ends, the session is streaming at once and the alternative START is never
\* written in it: neither the ALT write nor the second wait is visited.
FirstPacketSkipsAlt ==
    countAtWait1 > 0 =>
        /\ "ALT" \notin {ops[i] : i \in DOMAIN ops}
        /\ Streaming
        /\ countAtSetup = countAtWait1

StreamingWithoutAlt ==
    /\ countAtWait1 > 0 /\ hasWrite
    /\ Streaming /\ keepAliveInterval
    /\ "KEEPALIVE" \in {ops[i] : i \in DOMAIN ops}

\* C3 as stated: whenever the session is streaming with a write
\* characteristic and no stop has been requested, the keep-alive timer runs,
\* however Streaming was entered.
KeepAliveWheneverStreaming ==
    (Streaming /\ hasWrite /\ ~StopRequested) => keepAliveInterval

\* C3 amended: the keep-alive timer runs, and writes KEEP-ALIVE on its tick,
\* until a stop is requested exactly when there is a write characteristic and
\* a sample packet had been counted by the time the waits ended; a session
\* that ended its waits with packetCount = 0 never writes a keep-alive, also
\* when sample packets arrive later.
KeepAliveIffSamplesSeen ==
    /\ (Streaming /\ ~StopRequested) =>
          (keepAliveInterval <=> (hasWrite /\ countAtSetup > 0))
    /\ (Streaming /\ ~StopRequested /\ Alive
           /\ Count(ops, "KEEPALIVE") < MaxTicks) =>
          ((ENABLED (\E ok \in Outcomes : KeepAliveTick(ok))) <=> (hasWrite /\ countAtSetup > 0))
    /\ "KEEPALIVE" \in {ops[i] : i \in DOMAIN ops} =>
          (hasWrite /\ countAtSetup > 0)
    /\ StopRequested => ~keepAliveInterval

StreamingWithoutKeepAlive ==
    /\ Streaming /\ hasWrite /\ ~StopRequested /\ Alive
    /\ countAtWait1 = 0 /\ countAtSetup = 0
    /\ packetCount > 0
    /\ ~keepAliveInterval

\* C4 as stated: however many stop requests arrive, the STOP command, the
\* unsubscribe and the disconnect are each performed at most once.
StopAtMostOnce ==
    /\ Count(ops, "STOP") <= 1
    /\ Count(ops, "UNSUBSCRIBE") <= 1
    /\ Count(ops, "DISCONNECT") <= 1

\* C5 as stated: a stop request arriving at any point after the transport is
\* connected leads to the graceful stop sequence: the process does not end
\* without the STOP command attempted and the disconnect called.
StopAlwaysGraceful ==
    (stopAsked /\ proc \in {"killed", "exit0"}) =>
        /\ "DISCONNECT" \in {ops[i] : i \in DOMAIN ops}
        /\ hasWrite => "STOP" \in {ops[i] : i \in DOMAIN ops}

\* C6 as stated: once a stop is requested the teardown is unconditional: no
\* cleanup ends, whatever the STOP write and the unsubscribe did, without
\* the disconnect having been called.
TeardownUnconditional ==
    (StopRequested /\ \A i \in DOMAIN cleanups : cleanups[i] \in {"done", "failed"})
        => "DISCONNECT" \in {ops[i] : i \in DOMAIN ops}

\* C7 as stated: after a transport-disconnected event no START, ALT START or
\* KEEP-ALIVE is written and the keep-alive timer is not running.
NoCommandAfterDisconnect ==
    discAt >= 0 =>
        /\ ~keepAliveInterval
        /\ \A i \in DOMAIN ops : i > discAt => ops[i] \notin Commands

\* C10: the subscription completes before START is written, START precedes
\* every ALT START and KEEP-ALIVE, and once STOP is issued no START, ALT START
\* or KEEP-ALIVE is issued.
CommandOrder ==
    /\ \A j \in DOMAIN ops : ops[j] = "START" =>
          \E i \in 1..(j - 1) : ops[i] = "SUBSCRIBED"
    /\ \A j \in DOMAIN ops : ops[j] \in {"ALT", "KEEPALIVE"} =>
          \E i \in 1..(j - 1) : ops[i] = "START"
    /\ \A i \in DOMAIN ops : \A j \in DOMAIN ops :
          (i < j /\ ops[i] = "STOP") => ops[j] \notin Commands

AllCommandsThenStop ==
    /\ "ALT" \in {ops[i] : i \in DOMAIN ops}
    /\ "KEEPALIVE" \in {ops[i] : i \in DOMAIN ops}
    /\ Count(ops, "STOP") = 2

(***************************************************************************)
(* Properties of the scanner (scan.js), under ScanSpec / ScanFairSpec.     *)
(***************************************************************************)
\* C8 as stated: at no time are two connect/discover/subscribe sequences in
\* progress against the device, and none is started while it is connected.
SingleSession ==
    /\ Cardinality({h \in 1..MaxHandlers : InSequence(h)}) <= 1
    /\ pstate = "connected" =>
          \A h \in 1..MaxHandlers : handlers[h] # "connecting"

\* C9 as stated: the reconnection attempts are bounded: in every execution
\* there is a point after which connectAsync is never called again.
BoundedRetry ==
    <>[][~(\E h \in 1..MaxHandlers :
              handlers[h] = "stopScan" /\ handlers'[h] = "connecting")]_vars

\* C9 amended: the reconnection policy is an unbounded rescan: every
\* disconnect event and every connect/discover failure clears
\* connectedPeripheral and calls startScan() (which restarts the scan while
\* the adapter is powered on), whatever the number of earlier attempts.
RescanAfterDisconnect ==
    [][(/\ scanProc' = "running"
        /\ \/ pstate # "disconnected" /\ pstate' = "disconnected"
           \/ \E h \in 1..MaxHandlers :
                 handlers[h] = "errDisconnect" /\ handlers'[h] = "idle")
          => (connectedPeripheral' = FALSE
              /\ (bleState = "poweredOn" => scanning'))]_vars

ReconnectedRepeatedly ==
    /\ connects = MaxConnects
    /\ pstate = "disconnected" /\ scanning
    /\ \A h \in 1..MaxHandlers : handlers[h] = "idle"


(***************************************************************************)
(* Error handling of the command writes.                                   *)
(***************************************************************************)
\* C11: a failed keep-alive write is not fatal: the step in which the write
\* fails leaves the position of the handshake, the keep-alive timer, the
\* subscription, the process and the processor as they were, and after a
\* failed write the next tick still writes and notifications are still taken.
KeepAliveFailureNotFatal ==
    /\ [][kaFailedAt' # kaFailedAt =>
            UNCHANGED <<pc, keepAliveInterval, subscribed, linkUp, hasWrite,
                        proc, promise, cleanups, packetCount, channelBuffers,
                        sampleCount>>]_vars
    /\ [](kaFailedAt >= 0 =>
            /\ (Alive /\ keepAliveInterval /\ Count(ops, "KEEPALIVE") < MaxTicks)
                  => ENABLED (\E ok \in Outcomes : KeepAliveTick(ok))
            /\ (Alive /\ subscribed /\ linkUp /\ packetCount < MaxPackets)
                  => ENABLED (\E data \in SessionFrames : Notify(data))
            /\ (~StopRequested /\ pc = "armed") => keepAliveInterval)

KeepAliveSurvivesFailure ==
    /\ Alive /\ keepAliveInterval /\ pc = "armed"
    /\ kaFailedAt >= 0
    /\ ops[kaFailedAt] = "KEEPALIVE"
    /\ \E j \in DOMAIN ops : j > kaFailedAt /\ ops[j] = "KEEPALIVE"

\* C12: a rejected START write does not end the session: the body is in the
\* 2 s wait until that wait ends, the promise is not rejected, and when the
\* wait ends with no sample packet counted the alternative START is written.
StartRejectionNotFatal ==
    startRejected =>
        /\ pc \in {"wait1", "altWrite", "wait2", "armed"}
        /\ promise # "rejected"
        /\ countAtWait1 = -1 => pc = "wait1"
        /\ countAtWait1 = 0 => Count(ops, "ALT") = 1
        /\ countAtWait1 > 0 => Count(ops, "ALT") = 0

AltStartAfterRejectedStart ==
    /\ startRejected /\ Alive
    /\ countAtWait1 = 0
    /\ ops = <<"SUBSCRIBED", "START", "ALT">>


(***************************************************************************)
(* The decoder.                                                            *)
(***************************************************************************)
\* 0-based offset of record i (1-based position in the batch) of a frame
RecordOffset(i) == 12 + 7 * (i - 1)

\* the unsigned 24-bit little-endian value in the first 3 bytes of record i
Unsigned24(data, i) ==
    data[RecordOffset(i) + 1] + 256 * data[RecordOffset(i) + 2]
        + 65536 * data[RecordOffset(i) + 3]

\* the frame with every one of its last 10 bytes changed
TrailerFlipped(data) ==
    [i \in 1..Len(data) |->
        IF i > Len(data) - 10 THEN 255 - data[i] ELSE data[i]]

\* C13: decodePacket throws "Packet too short" for every frame of fewer than
\* 12 bytes and for no frame of 12 bytes or more.
TooShortExactlyUnderTwelve ==
    Decoded => (result.thrown <=> Len(frame) < 12)

ElevenBytesRefused ==
    /\ Decoded
    /\ Len(frame) = 11
    /\ result.thrown

\* C14: decodePacket fails for every frame of at least 12 bytes whose first 4
\* bytes are not "DATA", so that such a frame yields neither a status nor a
\* sample batch.
BadHeaderRejected ==
    (Decoded /\ Len(frame) >= 12 /\ SubSeq(frame, 1, 4) # DataTag) =>
        /\ result.thrown
        /\ result.samples = <<>>

\* C15: for the 24-bit little-endian value v in the first 3 bytes of a
\* record, rawValue is v - 2^24 when bit 23 of v is set and v when it is
\* clear; rawValue lies in -2^23 .. 2^23 - 1 and gives v back modulo 2^24.
SignExtensionRoundTrip ==
    (Decoded /\ ~result.thrown) =>
        \A i \in DOMAIN result.samples :
            LET v   == Unsigned24(frame, i)
                raw == result.samples[i].rawValue
            IN  /\ raw = IF v >= 8388608 THEN v - 16777216 ELSE v
                /\ raw >= -8388608 /\ raw <= 8388607
                /\ raw % 16777216 = v

MostNegativeDecoded ==
    /\ Decoded
    /\ Len(result.samples) = 1
    /\ Unsigned24(frame, 1) = 8388608
    /\ result.samples[1].rawValue = -8388608

\* C16: in every record the sample index is the little-endian 16-bit value
\* of record bytes 5 and 6 (3 value bytes, 2 unused bytes, 2 index bytes).
IndexFromBytesFiveAndSix ==
    (Decoded /\ ~result.thrown) =>
        \A i \in DOMAIN result.samples :
            result.samples[i].sampleIndex =
                frame[RecordOffset(i) + 6] + 256 * frame[RecordOffset(i) + 7]

\* C17: for every sample of a decoded batch the channel is the sample index
\* modulo the channel count in byte 7 of the frame, and samples of equal
\* index have equal channels.
ChannelIsIndexModCount ==
    (Decoded /\ ~result.thrown) =>
        /\ result.numChannels = frame[8]
        /\ \A i \in DOMAIN result.samples :
              /\ frame[8] > 0 =>
                    result.samples[i].channel
                        = result.samples[i].sampleIndex % frame[8]
              /\ \A j \in DOMAIN result.samples :
                    result.samples[j].sampleIndex = result.samples[i].sampleIndex
                        => result.samples[j].channel = result.samples[i].channel

IndexWrappedToChannel ==
    /\ Decoded /\ ~result.thrown
    /\ result.numChannels = 3
    /\ Len(result.samples) = 1
    /\ result.samples[1].sampleIndex = 256
    /\ result.samples[1].channel = 1

\* C18: a type-2 frame of L bytes decodes to max(0, floor((L - 22) / 7))
\* samples, sample i (from 0) being the record at offset 12 + 7 i, and the
\* samples do not depend on the last 10 bytes of the frame.
SampleCountByLength ==
    (Decoded /\ ~result.thrown /\ result.packetType = 2) =>
        LET L == Len(frame)
            n == IF (L - 22) \div 7 > 0 THEN (L - 22) \div 7 ELSE 0
        IN  /\ Len(result.samples) = n
            /\ \A i \in 1..n :
                  /\ RecordOffset(i) + 7 <= L - 10
                  /\ result.samples[i].sampleNumber = i - 1
                  /\ result.samples[i].rawValue % 16777216 = Unsigned24(frame, i)
                  /\ result.samples[i].sampleIndex
                        = readUInt16LE(frame, RecordOffset(i) + 4)
            /\ L >= 22 => decodePacket(TrailerFlipped(frame)).samples
                              = result.samples

TypicalFrameTenSamples ==
    /\ Decoded
    /\ Len(frame) = 92
    /\ result.packetType = 2
    /\ Len(result.samples) = 10


(***************************************************************************)
(* The channel buffers.                                                    *)
(***************************************************************************)
Smaller(a, b) == IF a < b THEN a ELSE b

\* the buffer held for a channel, empty for a channel not seen yet
Held(buffers, ch) == IF ch \in DOMAIN buffers THEN buffers[ch] ELSE <<>>

\* the entries a frame brings to a channel at time t, in wire order
Arrivals(data, ch, t) ==
    LET mine == SelectSeq(decodePacket(data).samples,
                          LAMBDA smp : smp.channel = ch)
    IN  [i \in DOMAIN mine |-> [time |-> t, voltage |-> mine[i].voltageUv]]

\* C19: after every counted packet each channel buffer holds at most
\* floor(windowDuration * samplingRate * 1.5) entries: it is what was held
\* followed by what arrived, less as many of the oldest entries as exceed
\* the capacity, the others in their order.
BufferWithinCapacity ==
    [][packetCount' = packetCount + 1 =>
          \A ch \in DOMAIN channelBuffers' :
              LET cap   == (3 * windowDuration * samplingRate) \div 2
                  new   == channelBuffers'[ch]
                  all   == Held(channelBuffers, ch)
                               \o Arrivals(lastFrame', ch, now)
              IN  /\ Len(new) <= cap
                  /\ Len(new) = Smaller(cap, Len(all))
                  /\ new = SubSeq(all, Len(all) - Len(new) + 1, Len(all))]_vars

OldestEvicted ==
    /\ DOMAIN channelBuffers = {0}
    /\ Len(channelBuffers[0]) = (3 * windowDuration * samplingRate) \div 2
    /\ sampleCount > Len(channelBuffers[0])
    /\ packetCount = 2

\* C20: the samples of one batch that go to the same channel are at the end
\* of that channel's buffer in wire order, after the entries of earlier
\* batches in their order; a channel the batch has no sample for keeps its
\* buffer as it was.
BatchKeepsWireOrder ==
    [][packetCount' = packetCount + 1 =>
          /\ DOMAIN channelBuffers \subseteq DOMAIN channelBuffers'
          /\ \A ch \in DOMAIN channelBuffers' :
                LET old == Held(channelBuffers, ch)
                    new == channelBuffers'[ch]
                    arr == Arrivals(lastFrame', ch, now)
                    k   == Smaller(Len(arr), Len(new))
                IN  /\ arr = <<>> => new = old
                    /\ SubSeq(new, Len(new) - k + 1, Len(new))
                          = SubSeq(arr, Len(arr) - k + 1, Len(arr))
                    /\ SubSeq(new, 1, Len(new) - k)
                          = SubSeq(old, Len(old) - (Len(new) - k) + 1,
                                   Len(old))]_vars

TwoBatchesInOrder ==
    /\ packetCount = 2
    /\ DOMAIN channelBuffers = {0, 1}
    /\ [i \in DOMAIN channelBuffers[0] |-> channelBuffers[0][i].voltage.num]
          = <<1, 3, 5>>
    /\ [i \in DOMAIN channelBuffers[1] |-> channelBuffers[1][i].voltage.num]
          = <<4>>

\* the last k entries of a sequence
LastOf(seq, k) == SubSeq(seq, Len(seq) - k + 1, Len(seq))

\* what a buffer holds once the arrivals are appended to what it held and
\* the excess over floor(windowDuration * samplingRate * 1.5) is dropped
AfterAppend(old, arr) ==
    LastOf(old \o arr,
           Smaller(Len(old \o arr), (3 * windowDuration * samplingRate) \div 2))

\* C21: in every channel buffer the time stamps do not decrease from the
\* oldest entry to the newest, evictions included.
TimestampsNonDecreasing ==
    \A ch \in DOMAIN channelBuffers :
        \A i \in DOMAIN channelBuffers[ch], j \in DOMAIN channelBuffers[ch] :
            i < j => channelBuffers[ch][i].time <= channelBuffers[ch][j].time

EvictedAcrossTicks ==
    /\ DOMAIN channelBuffers = {0}
    /\ sampleCount > Len(channelBuffers[0])
    /\ Len(channelBuffers[0]) >= 2
    /\ channelBuffers[0][1].time < channelBuffers[0][Len(channelBuffers[0])].time


(***************************************************************************)
(* Frames that are refused or not known.                                   *)
(***************************************************************************)
\* C22: processing a frame that fails decoding leaves the channel buffers,
\* packetCount, sampleCount and the analysis times as they were, so that the
\* frames after it are processed as without it, and the error does not
\* leave processPacket: the process runs on.
MalformedFrameHarmless ==
    [][(lastFrame' # lastFrame /\ decodePacket(lastFrame').thrown) =>
          /\ UNCHANGED <<channelBuffers, packetCount, sampleCount, startTime,
                         lastAnalysisTime>>
          /\ proc' = proc]_vars

MalformedAfterBatch ==
    /\ lastFrame = ShortFrame
    /\ packetCount >= 1
    /\ channelBuffers # <<>>
    /\ proc = "running"

\* C23: a frame of 12 bytes or more whose type byte is neither 1 nor 2
\* decodes without error to a packet with no samples, and processing it
\* leaves packetCount, sampleCount, the channels and their buffers as they
\* were.
UnknownTypeIgnored ==
    [][(lastFrame' # lastFrame /\ Len(lastFrame') >= 12
            /\ lastFrame'[6] \notin {1, 2}) =>
          /\ ~decodePacket(lastFrame').thrown
          /\ decodePacket(lastFrame').samples = <<>>
          /\ UNCHANGED <<packetCount, sampleCount, channelBuffers>>
          /\ proc' = proc]_vars

UnknownTypeAfterBatch ==
    /\ lastFrame = OtherTypeFrame(3)
    /\ packetCount >= 1
    /\ sampleCount >= 1

\* C24: a type-1 frame decodes to a status packet whose deviceModel is the
\* text of frame bytes 12 up to 17 without its NULs; the 16-byte frame
\* 44 41 54 41 00 01 00 03 20 00 00 00 54 48 32 31 gives "TH21".
StatusModelDecoded ==
    (Decoded /\ Len(frame) >= 12 /\ frame[6] = 1) =>
        /\ ~result.thrown
        /\ result.packetType = 1
        /\ result.samples = <<>>
        /\ result.deviceModel
              = SelectSeq(SubSeq(frame, 13, Smaller(Len(frame), 17)),
                          LAMBDA b : b # 0)
        /\ frame = <<68, 65, 84, 65, 0, 1, 0, 3, 32, 0, 0, 0, 84, 72, 50, 49>>
              => result.deviceModel = <<84, 72, 50, 49>>

LiteralStatusDecoded ==
    /\ Decoded
    /\ frame = <<68, 65, 84, 65, 0, 1, 0, 3, 32, 0, 0, 0, 84, 72, 50, 49>>
    /\ result.packetType = 1
    /\ result.deviceModel = <<84, 72, 50, 49>>

\* C25: the payload-size field is not used: a frame of 12 bytes or more
\* decodes without error whatever bytes 8..11 hold, and to the same type,
\* channel count, device model and samples as the frame with any other
\* value in them.
PayloadSizeAdvisory ==
    (Decoded /\ Len(frame) >= 12) =>
        /\ ~result.thrown
        /\ \A size \in SizeFields :
              LET other == decodePacket(WithSize(frame, size))
              IN  /\ ~other.thrown
                  /\ other.packetType = result.packetType
                  /\ other.numChannels = result.numChannels
                  /\ other.deviceModel = result.deviceModel
                  /\ other.samples = result.samples

SizeMismatchDecoded ==
    /\ Decoded
    /\ Len(frame) = 92
    /\ result.payloadSize = 1
    /\ Len(result.samples) = 10


(***************************************************************************)
(* The analysis.                                                           *)
(***************************************************************************)
\* the voltages of a buffer, oldest first
Voltages(buffer) == [i \in DOMAIN buffer |-> buffer[i].voltage]

\* C26: the data an analysis reads are the most recent
\* min(n, floor(windowDuration * samplingRate)) voltages of the channel's
\* buffer of n entries, in the buffer's order, and the buffer is what the
\* appends alone make it.
SnapshotIsRecentWindow ==
    [][packetCount' = packetCount + 1 =>
          \A e \in emitted' :
              LET new == channelBuffers'[e.channel]
                  k   == Smaller(Len(new), windowDuration * samplingRate)
              IN  /\ e.data = LastOf(Voltages(new), k)
                  /\ new = AfterAppend(Held(channelBuffers, e.channel),
                                       Arrivals(lastFrame', e.channel, now))]_vars

WindowOfLongerBuffer ==
    \E e \in emitted :
        /\ e.held > Len(e.data)
        /\ Len(e.data) = windowDuration * samplingRate
        /\ e.data[1] # channelBuffers[e.channel][1].voltage

\* C27: an analysis is printed only for a channel holding at least 10
\* samples; for a channel with fewer the call prints nothing, raises
\* nothing and leaves the buffer what the appends made it.
MinimumSamplesToAnalyse ==
    /\ [](\A e \in emitted : e.held >= 10 /\ Len(e.data) >= 10)
    /\ [][packetCount' = packetCount + 1 =>
            \A ch \in DOMAIN channelBuffers' :
                Len(channelBuffers'[ch]) < 10 =>
                    /\ \A e \in emitted' : e.channel # ch
                    /\ channelBuffers'[ch]
                          = AfterAppend(Held(channelBuffers, ch),
                                        Arrivals(lastFrame', ch, now))
                    /\ proc' = proc]_vars

SkippedForFewSamples ==
    \E ch \in DOMAIN channelBuffers :
        /\ Len(channelBuffers[ch]) < 10
        /\ channelBuffers[ch][1].time + analysisInterval <= now
        /\ lastAnalysisTime[ch] = now
        /\ \A e \in emitted : e.channel # ch
        /\ proc = "running"

\* C28: every channel holding at least 10 samples is analysed once per
\* analysis interval, notifications or not: no such channel is left
\* without an analysis for longer than the interval.
AnalysedEveryInterval ==
    \A ch \in DOMAIN channelBuffers :
        Len(channelBuffers[ch]) >= 10 =>
            now - lastAnalysisTime[ch] <= analysisInterval

\* C29: an analysis reads a buffer only once the whole batch has been
\* appended and trimmed: the length it sees is the length after the batch,
\* within the capacity, and its data end with the batch's samples for the
\* channel.
AnalysisSeesWholeBatch ==
    [][packetCount' = packetCount + 1 =>
          \A e \in emitted' :
              LET new == channelBuffers'[e.channel]
                  arr == Voltages(Arrivals(lastFrame', e.channel, now))
                  k   == Smaller(Len(arr), Len(e.data))
              IN  /\ e.held = Len(new)
                  /\ e.held <= (3 * windowDuration * samplingRate) \div 2
                  /\ LastOf(e.data, k) = LastOf(arr, k)]_vars

AnalysedAfterBatch ==
    \E e \in emitted :
        /\ lastFrame = BatchFrame(1, Records(21, 10))
        /\ e.held = Len(channelBuffers[e.channel])
        /\ e.held > 10
        /\ e.data[Len(e.data)].num = 30


(***************************************************************************)
(* The constructor.                                                        *)
(***************************************************************************)
\* C30: constructing the processor with a samplingRate of 0 or less fails
\* with a ConfigError, and no processor has a samplingRate or a buffer
\* capacity of 0 or less.
NonPositiveRateRefused ==
    constructed # "no" =>
        /\ options.samplingRate <= 0 => constructed = "ConfigError"
        /\ constructed = "ok" => (samplingRate > 0 /\ maxBufferSamples > 0)

(***************************************************************************)
(* What the processor surfaces about errors.                               *)
(***************************************************************************)
\* every field the constructor gives the processor (maxBufferSamples and
\* analysisInterval, never written again, follow from them): there is no
\* field for errors among them
processorFields == <<windowDuration, samplingRate, adcScale, channelBuffers,
                     packetCount, sampleCount, startTime, lastAnalysisTime>>

\* C31: the processor surfaces an error counter that increases for every
\* frame whose decoding fails: processing such a frame changes what the
\* processor holds.
DecodeFailureCounted ==
    [][(lastFrame' # lastFrame /\ decodePacket(lastFrame').thrown) =>
          processorFields' # processorFields]_vars

(***************************************************************************)
(* The band powers.                                                        *)
(***************************************************************************)
\* the sum of the numerators of the five relative powers, which share the
\* denominator
RelativeSum(r) ==
    SumOf([b \in BandNames |-> r.relativePower[b].num], BandNames)

HoldsSample(data) == Len(data) >= 29 /\ data[6] = 2

\* C33: packetCount increases, by one, only on a type-2 frame holding at
\* least one sample; status frames, frames of unknown type, frames with no
\* sample and refused frames leave it alone, so a session given only such
\* frames has packetCount 0, writes the alternative START when the wait
\* after START ends, and never starts the keep-alive.
OnlySampleBatchesCount ==
    /\ [][packetCount' # packetCount =>
            (HoldsSample(lastFrame') /\ packetCount' = packetCount + 1)]_vars
    /\ []((\A data \in seen : ~HoldsSample(data)) =>
            /\ packetCount = 0
            /\ (hasWrite /\ pc \in {"altWrite", "wait2", "armed"})
                  => Count(ops, "ALT") = 1
            /\ pc = "armed" =>
                  (~keepAliveInterval /\ Count(ops, "KEEPALIVE") = 0))

OnlyOtherFramesThenAltStart ==
    /\ seen = {StatusFrame, EmptyBatchFrame, UnknownTypeFrame, ShortFrame}
    /\ hasWrite /\ pc = "armed"
    /\ packetCount = 0
    /\ ops = <<"SUBSCRIBED", "START", "ALT">>
    /\ ~keepAliveInterval

SetupFailureReleasesLink ==
    pc = "rejected" =>
        /\ promise = "rejected"
        /\ ops = <<>>
        /\ ~linkUp

(***************************************************************************)
(* The channel a sample is routed to.                                      *)
(***************************************************************************)
\* C36: a counted frame creates or extends only buffers whose channel id is
\* an integer from 0 up to the frame's declared channel count less one; a
\* frame declaring 0 channels creates no buffer and extends none.
ChannelIdsWithinDeclared ==
    [][packetCount' = packetCount + 1 =>
          \A ch \in DOMAIN channelBuffers' :
              channelBuffers'[ch] # Held(channelBuffers, ch) =>
                  (ch >= 0 /\ ch < lastFrame'[8])]_vars

(***************************************************************************)
(* The times of the analyses.                                              *)
(***************************************************************************)
\* C37: lastAnalysisTime has an entry for exactly the channels that have a
\* buffer; the entry is made at the channel's first sample, with the time
\* of that sample, and changes only when analyzeChannel is invoked for the
\* channel, to the time of the invocation, which is then at least 2000 ms
\* after the entry it replaces; every analysis printed is such an
\* invocation.
AnalysesAnIntervalApart ==
    /\ [](DOMAIN lastAnalysisTime = DOMAIN channelBuffers)
    /\ [][\A ch \in DOMAIN lastAnalysisTime' :
            IF ch \in DOMAIN lastAnalysisTime
            THEN /\ lastAnalysisTime'[ch] # lastAnalysisTime[ch] =>
                       /\ lastAnalysisTime'[ch] = now
                       /\ now - lastAnalysisTime[ch] >= 2000
                 /\ (packetCount' # packetCount
                        /\ \E e \in emitted' : e.channel = ch) =>
                       /\ lastAnalysisTime'[ch] = now
                       /\ now - lastAnalysisTime[ch] >= 2000
            ELSE /\ lastAnalysisTime'[ch] = now
                 /\ channelBuffers'[ch][1].time = now
                 /\ \A e \in emitted' : e.channel # ch]_vars

TwoAnalysesOfOneChannel ==
    /\ 0 \in DOMAIN channelBuffers
    /\ {channelBuffers[0][i].time : i \in DOMAIN channelBuffers[0]}
          = {1000, 3000, 5000}
    /\ lastAnalysisTime[0] = 5000
    /\ \E e \in emitted : e.channel = 0 /\ e.held = 12

(***************************************************************************)
(* connectedPeripheral of scan.js.                                         *)
(***************************************************************************)
\* C38: connectedPeripheral is set only when connectAsync resolves and is
\* non-null only while that peripheral is connected; the 'disconnect'
\* event and the end of the catch of a connect/discover failure leave it
\* null and have called startScan(), which restarts the scan of a
\* powered-on adapter, and every such catch comes to its end.
PeripheralSetOnlyWhileConnected ==
    /\ [](connectedPeripheral => pstate = "connected")
    /\ [][(connectedPeripheral' /\ ~connectedPeripheral) =>
            \E h \in 1..MaxHandlers :
                handlers[h] = "connecting" /\ handlers'[h] = "discovering"]_vars
    /\ [][(/\ scanProc' = "running"
           /\ \/ pstate = "connected" /\ pstate' = "disconnected"
              \/ \E h \in 1..MaxHandlers :
                    handlers[h] = "errDisconnect" /\ handlers'[h] # "errDisconnect")
             => (~connectedPeripheral'
                 /\ scanning' = (scanning \/ bleState = "poweredOn"))]_vars
    /\ \A h \in 1..MaxHandlers :
          (handlers[h] = "errDisconnect")
              ~> (scanProc # "running" \/ handlers[h] = "idle")

ClearedAndScanningAgain ==
    /\ ~connectedPeripheral
    /\ pstate = "disconnected" /\ discListeners
    /\ bleState = "poweredOn" /\ scanning
    /\ connects = 1
    /\ \A h \in 1..MaxHandlers : handlers[h] = "idle"

(***************************************************************************)
(* scanForDevice.                                                          *)
(***************************************************************************)
\* the advertised names that contain 'serenibrain', 'th21a' or 'eeg' in
\* whatever case: "Serenibrain", "TH21A" and "My EEG"
WantedNames ==
    { <<"S", "e", "r", "e", "n", "i", "b", "r", "a", "i", "n">>,
      <<"T", "H", "2", "1", "A">>,
      <<"M", "y", " ", "E", "E", "G">> }

\* C39: the promise of scanForDevice is settled once: with the first
\* discovered peripheral of a wanted name, in the step that discovers it,
\* or with no device when the timer fires; it is settled when the timer
\* has fired, the scan is then stopped, later 'discover' events do not
\* change it, and it is settled in the end in every run.
FindSettlesOnce ==
    /\ [](found.state = "resolved" =>
            /\ ~nobleScanning
            /\ found.at <= Len(devices)
            /\ \A j \in 1..(found.at - 1) : devices[j] \notin WantedNames
            /\ IF found.value = <<>>
               THEN /\ timeoutHandle = "fired"
                    /\ \A j \in 1..found.at : devices[j] \notin WantedNames
               ELSE /\ found.value = <<devices[found.at]>>
                    /\ devices[found.at] \in WantedNames
                    /\ timeoutHandle = "cleared")
    /\ [](found.state = "pending" =>
            /\ timeoutHandle = "pending" /\ nobleScanning
            /\ \A j \in DOMAIN devices : devices[j] \notin WantedNames)
    /\ [][found.state = "resolved" => found' = found]_vars
    /\ (found.state = "pending") ~> (found.state = "resolved")

LaterDiscoverChangesNothing ==
    /\ found.state = "resolved"
    /\ found.value = <<<<"T", "H", "2", "1", "A">>>>
    /\ found.at = 2
    /\ Len(devices) = 3
    /\ devices[3] = <<"M", "y", " ", "E", "E", "G">>
    /\ resolveCalls = 2

====
